---- MODULE Spec2Model ----
(***************************************************************************)
(* Model of the Skoda MQTT bridge (src/myskoda_mqtt).                      *)
(*                                                                         *)
(* Two threads of control and the environment:                             *)
(*   - the main thread runs SkodaMQTTBridge.start(): authenticate, create  *)
(*     the MQTT client, register the command handlers, connect, wait,      *)
(*     publish discovery, set running and poll in _main_loop(); the        *)
(*     finally block calls stop().  A SIGINT/SIGTERM handler runs stop()   *)
(*     ON the main thread, between two of its steps: it is a frame pushed  *)
(*     on `stack`, and the body of start() resumes when the stack is       *)
(*     empty again.  A second signal can arrive while a handler runs.      *)
(*   - the network thread started by client.loop_start() runs the paho     *)
(*     callbacks _on_connect, _on_disconnect and _on_message one at a time;*)
(*     _on_message runs the registered command handler to completion.      *)
(*   - the environment: the upstream vehicle API (each call returns or     *)
(*     raises), the broker (CONNACK, delivery of command messages, loss of *)
(*     the link), signals and time.                                        *)
(*                                                                         *)
(* The upstream requests are placeholders in the source; a call is         *)
(* modelled with both outcomes its try/except distinguishes.               *)
(***************************************************************************)
EXTENDS Integers, Sequences, FiniteSets, TLC

\* ---------------------------------------------------------------- bounds
\* Poll iterations started.
MaxPolls == 2
\* Events of the environment: signals, command messages and link losses.
MaxEvents == 3
\* Clock readings and expiry times, in minutes, of the token lifecycle.
MaxNow == 2
MaxExpiry == 8

\* ------------------------------------------------------------- constants
CommandNames == {"start_charging", "stop_charging", "lock", "unlock"}
\* A command name nobody registers, to exercise the "no handler" branch.
TopicNames == CommandNames \cup {"horn"}
\* The topic level after the prefix: <prefix>/command/# is the filter
\* _on_connect subscribes to; <prefix>/cmd/<name> are the command topics of
\* HADiscovery's buttons.
command_topic == "command"
TopicFamilies == {"command", "cmd"}

VARIABLES
    \* --- SkodaMQTTBridge, main thread
    mpc,            \* position of the main thread in start()/_main_loop()
    exc,            \* an exception is propagating out of start()'s try body
    timer,          \* the poll loop's time.sleep: "off", "pending", "elapsed"
    status,         \* _main_loop's local `status` (0: none), a snapshot
    running,        \* self.running
    ha_discovery,   \* config.ha_discovery
    stack,          \* stop() invocations in progress on the main thread
    \* --- MQTTClient and the network thread
    npc,            \* position of the network thread
    ncmd,           \* the command whose handler is running ("" if none)
    hstatus,        \* the handler's local `status` (0: none)
    command_callbacks, \* self.command_callbacks
    connected,      \* MQTTClient.connected
    \* --- broker / transport
    link,           \* the transport to the broker is up
    subscribed,     \* the broker holds the subscription <prefix>/command/#
    retAvail,       \* retained <prefix>/availability: "none","online","offline"
    retState,       \* retained vehicle state: the snapshot (0: none)
    \* --- history
    onlineSent,     \* "online" was published since the link last came up
    discPubs,       \* how many times the discovery documents were published
    polls,          \* status fetches attempted by the poll loop
    pollFails,      \* poll iterations that raised
    cooldowns,      \* cooldown sleeps started
    cmds,           \* command messages delivered
    sigs,           \* signals delivered
    drops,          \* losses of the link
    lastH,          \* the calls the running handler has completed so far
    hraised,        \* exceptions raised inside command handlers
    hfail,          \* how the last message ended: the call that raised in
                    \* its handler, "nohandler", or "none"
    herrors,        \* "Failed to ..." lines logged by command handlers
    offlineCalls,   \* publish_availability(False) calls
    disconnectCalls, \* MQTTClient.disconnect() calls
    \* --- SkodaAPI: the token state, and the clock it is compared with
    access_token,   \* self.access_token ("None": not set)
    refresh_token,  \* self.refresh_token ("None": not set)
    token_expires_at, \* self.token_expires_at in minutes (NoTime: not set)
    now,            \* datetime.now() in minutes
    authCalls,      \* authenticate() calls of the latest _ensure_token_valid
    refreshCalls    \* refresh exchanges of the latest _ensure_token_valid

mainVars == <<mpc, exc, timer, status, running, ha_discovery>>
netVars == <<npc, ncmd, hstatus, command_callbacks, connected>>
busVars == <<link, subscribed, retAvail, retState, onlineSent, discPubs>>
histVars == <<polls, pollFails, cooldowns, cmds, sigs, drops, lastH,
              hraised, hfail, herrors, offlineCalls, disconnectCalls>>
tokVars == <<access_token, refresh_token, token_expires_at, now,
             authCalls, refreshCalls>>
vars == <<mainVars, stack, netVars, busVars, histVars, tokVars>>

\* ------------------------------------------------------------- helpers
NoH == [write |-> "none", fetch |-> "none"]

HandlerPcs == {"h_write", "h_fetch", "h_publish"}
\* The network thread is between two callbacks (or not running at all).
NetQuiescent == {"off", "connack", "idle", "down", "stopped", "dead"}
SleepPcs == {"sleep_poll", "cooldown"}
LoopPcs == {"loop_check", "fetch", "publish", "sleep_poll", "cooldown"}

Top == stack[Len(stack)]
Pop == SubSeq(stack, 1, Len(stack) - 1)
SetTop(f) == [stack EXCEPT ![Len(stack)] = f]
Frame(origin) == [pc |-> "check", off |-> FALSE, origin |-> origin]

\* A registry in which the first registration of a command stays.
register_keep_first(cbs, command, callback) ==
    [n \in (DOMAIN cbs) \cup {command} |->
        IF n \in DOMAIN cbs THEN cbs[n] ELSE callback]

\* MQTTClient.register_command_callback: self.command_callbacks[command] = callback
register_command_callback(cbs, command, callback) ==
    [n \in (DOMAIN cbs) \cup {command} |->
        IF n = command THEN callback ELSE cbs[n]]

\* The four closures of _register_command_handlers, by the command they serve.
HandlerOf(name) == "handle_" \o name

\* MQTTClient.publish_availability: client.publish(<prefix>/availability, ...)
\* The broker retains the message only if the transport is up.
publish_availability(available) ==
    IF link THEN (IF available THEN "online" ELSE "offline") ELSE retAvail

\* MQTTClient.publish_state: skipped when not connected; else the snapshot's
\* topics are published retained.
publish_state(snap) ==
    IF connected /\ link THEN snap ELSE retState

\* A snapshot is represented by the rank of its last_updated timestamp
\* (datetime.now() at the fetch) among the snapshots still held somewhere:
\* only the order of the timestamps matters.  Rank of x among the set S.
RankIn(x, S) == IF x = 0 THEN 0 ELSE Cardinality({y \in S : y <= x})
\* The snapshots held besides the one about to be fetched.
Held(a, b) == {a, b} \ {0}
\* get_vehicle_status's return value: newer than every snapshot held.
get_vehicle_status(a, b) == Cardinality(Held(a, b)) + 1

\* Events of the environment so far.
Events == sigs + cmds + drops

\* ------------------------------------------------------ token lifecycle
\* token_expires_at is None.
NoTime == -1
\* timedelta(minutes=5): the token is refreshed this long before it expires.
RefreshMargin == 5

\* The token state of the SkodaAPI object.
Tok ==
    [access_token |-> access_token, refresh_token |-> refresh_token,
     token_expires_at |-> token_expires_at]

\* An authenticate() that stores an access token without an expiry time.
authenticate_token_only(t) ==
    [t EXCEPT !.access_token = "tok", !.token_expires_at = NoTime]

\* SkodaAPI.authenticate: the request and the assignments of the token
\* fields are commented out in the source; the token state is left as it is.
authenticate(t) == t

\* _refresh_token that gives up where it cannot refresh: no authenticate()
\* without a refresh token or after a failed exchange.
refresh_token_no_fallback(t, ok) ==
    IF t.refresh_token = "None"
    THEN [tok |-> t, auth |-> 0, refresh |-> 0, fallback |-> FALSE]
    ELSE [tok |-> t, auth |-> 0, refresh |-> 1, fallback |-> ~ok]

\* _refresh_token that re-authenticates after a successful exchange as well.
refresh_then_authenticate(t, ok) ==
    IF t.refresh_token = "None"
    THEN [tok |-> authenticate(t), auth |-> 1, refresh |-> 0, fallback |-> FALSE]
    ELSE [tok |-> authenticate(t), auth |-> 1, refresh |-> 1, fallback |-> ~ok]

\* SkodaAPI._refresh_token: without a refresh token, authenticate();
\* else the refresh exchange, and authenticate() if the exchange fails
\* (ok: the exchange succeeds).  The result: the token state, the number of
\* authenticate() calls and of refresh exchanges made, and whether the
\* fallback after a failed exchange was taken.
_refresh_token(t, ok) ==
    IF t.refresh_token = "None"
    THEN [tok |-> authenticate(t), auth |-> 1, refresh |-> 0, fallback |-> FALSE]
    ELSE IF ok
         THEN [tok |-> t, auth |-> 0, refresh |-> 1, fallback |-> FALSE]
         ELSE [tok |-> authenticate(t), auth |-> 1, refresh |-> 1,
               fallback |-> TRUE]

\* _ensure_token_valid that authenticates when the token has expired and
\* refreshes only a token that has not.
ensure_token_valid_expired_authenticates(t, n, ok) ==
    IF t.access_token = "None" \/ t.token_expires_at = NoTime
            \/ n >= t.token_expires_at
    THEN [tok |-> authenticate(t), auth |-> 1, refresh |-> 0, fallback |-> FALSE]
    ELSE IF n >= t.token_expires_at - RefreshMargin
         THEN _refresh_token(t, ok)
         ELSE [tok |-> t, auth |-> 0, refresh |-> 0, fallback |-> FALSE]

\* _ensure_token_valid that refreshes whatever the expiry time is.
ensure_token_valid_no_margin(t, n, ok) ==
    IF t.access_token = "None" \/ t.token_expires_at = NoTime
    THEN [tok |-> authenticate(t), auth |-> 1, refresh |-> 0, fallback |-> FALSE]
    ELSE _refresh_token(t, ok)

\* SkodaAPI._ensure_token_valid at clock reading n.
_ensure_token_valid(t, n, ok) ==
    IF t.access_token = "None" \/ t.token_expires_at = NoTime
    THEN [tok |-> authenticate(t), auth |-> 1, refresh |-> 0, fallback |-> FALSE]
    ELSE IF n >= t.token_expires_at - RefreshMargin
         THEN _refresh_token(t, ok)
         ELSE [tok |-> t, auth |-> 0, refresh |-> 0, fallback |-> FALSE]

\* The effect of one _ensure_token_valid() call on the SkodaAPI object.
ApplyEnsureTokenValid(ok) ==
    LET r == _ensure_token_valid(Tok, now, ok)
    IN  /\ access_token' = r.tok.access_token
        /\ refresh_token' = r.tok.refresh_token
        /\ token_expires_at' = r.tok.token_expires_at
        /\ authCalls' = r.auth
        /\ refreshCalls' = r.refresh
        /\ now' = now

\* self._ensure_token_valid(), the first statement of every API operation.
CallEnsureTokenValid == \E ok \in BOOLEAN: ApplyEnsureTokenValid(ok)

TypeOK ==
    /\ running \in BOOLEAN /\ connected \in BOOLEAN /\ link \in BOOLEAN
    /\ timer \in {"off", "pending", "elapsed"}
    /\ Len(stack) <= MaxEvents + 1
    /\ retAvail \in {"none", "online", "offline"}
    /\ polls \in 0..MaxPolls /\ Events \in 0..MaxEvents

\* The bridge and the MQTT client as their constructors leave them, with the
\* main thread at pc.
Constructed(pc) ==
    /\ mpc = pc /\ exc = FALSE /\ timer = "off" /\ status = 0
    /\ running = FALSE
    /\ ha_discovery \in BOOLEAN
    /\ stack = <<>>
    /\ npc = "off" /\ ncmd = "" /\ hstatus = 0
    /\ command_callbacks = <<>>
    /\ connected = FALSE
    /\ link = FALSE /\ subscribed = FALSE
    /\ retAvail = "none" /\ retState = 0
    /\ onlineSent = FALSE /\ discPubs = 0
    /\ polls = 0 /\ pollFails = 0 /\ cooldowns = 0
    /\ cmds = 0 /\ sigs = 0 /\ drops = 0
    /\ lastH = NoH /\ hraised = 0 /\ hfail = "none" /\ herrors = 0
    /\ offlineCalls = 0 /\ disconnectCalls = 0

\* SkodaAPI.__init__: no token is held.
NoToken ==
    /\ access_token = "None" /\ refresh_token = "None"
    /\ token_expires_at = NoTime
    /\ now = 0 /\ authCalls = 0 /\ refreshCalls = 0

\* The process enters main().
Init == Constructed("main") /\ NoToken

\* ------------------------------------------------------- main thread
\* The body of start() runs only while no stop() frame is on the stack.
MainRuns == stack = <<>>

\* main(): Config(config_file) validates the required fields and raises
\* ValueError if one is missing; then the bridge is constructed.
LoadConfig ==
    /\ mpc = "main"
    /\ \E valid \in BOOLEAN:
        mpc' = IF valid THEN "created" ELSE "config_error"
    /\ UNCHANGED <<exc, timer, status, running, ha_discovery, stack,
                   netVars, busVars, histVars, tokVars>>

\* main() ends: sys.exit(1) in its except clauses, or it returns.  The
\* network thread, a daemon thread, ends with the process, and so does the
\* transport if it is still open.
Exit ==
    /\ mpc \in {"config_error", "raised", "returned"} /\ MainRuns
    /\ mpc' = IF mpc = "returned" THEN "exit_0" ELSE "exit_1"
    /\ npc' = IF npc \in {"off", "dead"} THEN npc ELSE "stopped"
    /\ link' = FALSE
    /\ subscribed' = FALSE
    /\ UNCHANGED <<exc, timer, status, running, ha_discovery, stack,
                   ncmd, hstatus, command_callbacks, connected,
                   retAvail, retState, onlineSent, discPubs,
                   histVars, tokVars>>

\* start(), lines up to the SkodaAPI constructor: the signal handlers are
\* installed.
Start ==
    /\ mpc = "created" /\ MainRuns
    /\ mpc' = "auth"
    /\ UNCHANGED <<exc, timer, status, running, ha_discovery, stack,
                   netVars, busVars, histVars>>
    /\ UNCHANGED tokVars

\* A start() that logs the exception of its try body and does not re-raise.
start_except_swallowed ==
    /\ exc' = FALSE
    /\ mpc' = "finally"

\* What start() does with an exception of its try body: log, re-raise,
\* and run the finally block on the way out.
start_except ==
    /\ exc' = TRUE
    /\ mpc' = "finally"

\* self.skoda_api.authenticate(): returns, or raises SkodaAuthError.
Authenticate ==
    /\ mpc = "auth" /\ MainRuns
    /\ \E ok \in BOOLEAN:
        IF ok THEN mpc' = "register" /\ exc' = exc
              ELSE start_except
    /\ UNCHANGED <<timer, status, running, ha_discovery, stack,
                   netVars, busVars, histVars>>
    /\ UNCHANGED tokVars

\* _register_command_handlers without its last registration.
register_command_handlers_without_unlock ==
    LET c1 == register_command_callback(command_callbacks, "start_charging",
                                        HandlerOf("start_charging"))
        c2 == register_command_callback(c1, "stop_charging",
                                        HandlerOf("stop_charging"))
    IN  register_command_callback(c2, "lock", HandlerOf("lock"))

\* MQTTClient(...) and _register_command_handlers().
register_command_handlers ==
    LET c1 == register_command_callback(command_callbacks, "start_charging",
                                        HandlerOf("start_charging"))
        c2 == register_command_callback(c1, "stop_charging",
                                        HandlerOf("stop_charging"))
        c3 == register_command_callback(c2, "lock", HandlerOf("lock"))
    IN  register_command_callback(c3, "unlock", HandlerOf("unlock"))

RegisterHandlers ==
    /\ mpc = "register" /\ MainRuns
    /\ command_callbacks' = register_command_handlers
    /\ mpc' = "connect"
    /\ UNCHANGED <<exc, timer, status, running, ha_discovery, stack,
                   npc, ncmd, hstatus, connected, busVars, histVars>>
    /\ UNCHANGED tokVars

\* MQTTClient.connect(): client.connect() opens the transport and
\* loop_start() starts the network thread; or client.connect() raises.
Connect ==
    /\ mpc = "connect" /\ MainRuns
    /\ \E ok \in BOOLEAN:
        IF ok THEN /\ mpc' = "wait" /\ exc' = exc
                   /\ link' = TRUE /\ onlineSent' = FALSE
                   /\ npc' = "connack"
              ELSE /\ start_except
                   /\ UNCHANGED <<link, onlineSent, npc>>
    /\ UNCHANGED <<timer, status, running, ha_discovery, stack,
                   ncmd, hstatus, command_callbacks, connected,
                   subscribed, retAvail, retState, discPubs, histVars>>
    /\ UNCHANGED tokVars

\* time.sleep(2)
Wait ==
    /\ mpc = "wait" /\ MainRuns
    /\ mpc' = "discovery"
    /\ UNCHANGED <<exc, timer, status, running, ha_discovery, stack,
                   netVars, busVars, histVars>>
    /\ UNCHANGED tokVars

\* MQTTClient.publish_ha_discovery: skipped when not connected.
publish_ha_discovery ==
    IF connected THEN discPubs + 1 ELSE discPubs

\* if self.config.ha_discovery: self._publish_ha_discovery()
\* The publishes are made only when connected; client.publish can raise
\* (a discovery prefix with a wildcard in it is a ValueError).
Discovery ==
    /\ mpc = "discovery" /\ MainRuns
    /\ \E ok \in BOOLEAN:
        IF ok \/ ~ha_discovery \/ ~connected
        THEN /\ discPubs' = IF ha_discovery THEN publish_ha_discovery
                                            ELSE discPubs
             /\ mpc' = "set_running" /\ exc' = exc
        ELSE /\ start_except
             /\ discPubs' = discPubs
    /\ UNCHANGED <<timer, status, running, ha_discovery, stack,
                   netVars, link, subscribed, retAvail, retState,
                   onlineSent, histVars>>
    /\ UNCHANGED tokVars

\* self.running = True
SetRunning ==
    /\ mpc = "set_running" /\ MainRuns
    /\ running' = TRUE
    /\ mpc' = "loop_check"
    /\ UNCHANGED <<exc, timer, status, ha_discovery, stack,
                   netVars, busVars, histVars>>
    /\ UNCHANGED tokVars

\* while self.running:
LoopCheck ==
    /\ mpc = "loop_check" /\ MainRuns
    /\ running => polls < MaxPolls
    /\ mpc' = IF running THEN "fetch" ELSE "finally"
    /\ UNCHANGED <<exc, timer, status, running, ha_discovery, stack,
                   netVars, busVars, histVars>>
    /\ UNCHANGED tokVars

\* An except clause that logs and retries at once, without the sleep.
main_loop_except_no_sleep ==
    /\ cooldowns' = cooldowns
    /\ mpc' = "loop_check"
    /\ timer' = timer

\* _main_loop's except clauses (SkodaAPIError and Exception alike):
\* log the error, then time.sleep(60).
main_loop_except ==
    /\ cooldowns' = cooldowns + 1
    /\ mpc' = "cooldown"
    /\ timer' = "pending"

\* status = self.skoda_api.get_vehicle_status()
PollFetch ==
    /\ mpc = "fetch" /\ MainRuns
    /\ polls' = polls + 1
    /\ \E ok \in BOOLEAN:
        IF ok THEN /\ status' = get_vehicle_status(hstatus, retState)
                   /\ hstatus' = RankIn(hstatus, Held(hstatus, retState))
                   /\ retState' = RankIn(retState, Held(hstatus, retState))
                   /\ mpc' = "publish"
                   /\ UNCHANGED <<timer, pollFails, cooldowns>>
              ELSE /\ pollFails' = pollFails + 1
                   /\ main_loop_except
                   /\ UNCHANGED <<status, hstatus, retState>>
    /\ UNCHANGED <<exc, running, ha_discovery, stack,
                   npc, ncmd, command_callbacks, connected,
                   link, subscribed, retAvail, onlineSent, discPubs,
                   cmds, sigs, drops, lastH, hraised, hfail, herrors,
                   offlineCalls, disconnectCalls>>
    /\ CallEnsureTokenValid

\* self.mqtt_client.publish_state(status); then time.sleep(poll_interval)
PollPublish ==
    /\ mpc = "publish" /\ MainRuns
    /\ \E ok \in BOOLEAN:
        IF ok THEN /\ retState' = publish_state(status)
                   /\ mpc' = "sleep_poll"
                   /\ timer' = "pending"
                   /\ UNCHANGED <<pollFails, cooldowns>>
              ELSE /\ pollFails' = pollFails + 1
                   /\ main_loop_except
                   /\ UNCHANGED retState
    /\ status' = 0
    /\ UNCHANGED <<exc, running, ha_discovery, stack, netVars,
                   link, subscribed, retAvail, onlineSent, discPubs,
                   polls, cmds, sigs, drops, lastH, hraised, hfail, herrors,
                   offlineCalls, disconnectCalls>>
    /\ UNCHANGED tokVars

\* The time of the poll loop's sleep (poll_interval, or the 60 s of the
\* cooldown) elapses, whatever else is going on.
Tick ==
    /\ mpc \in SleepPcs /\ timer = "pending"
    /\ timer' = "elapsed"
    /\ UNCHANGED <<mpc, exc, status, running, ha_discovery, stack,
                   netVars, busVars, histVars>>
    /\ UNCHANGED tokVars

\* time.sleep returns.
Wake ==
    /\ mpc \in SleepPcs /\ timer = "elapsed" /\ MainRuns
    /\ mpc' = "loop_check"
    /\ timer' = "off"
    /\ UNCHANGED <<exc, status, running, ha_discovery, stack,
                   netVars, busVars, histVars>>
    /\ UNCHANGED tokVars

\* finally: self.stop()
Finally ==
    /\ mpc = "finally" /\ MainRuns
    /\ mpc' = "in_finally"
    /\ stack' = <<Frame("finally")>>
    /\ UNCHANGED <<exc, timer, status, running, ha_discovery,
                   netVars, busVars, histVars>>
    /\ UNCHANGED tokVars

\* start() returns, or the exception leaves it.
Return ==
    /\ mpc = "in_finally" /\ MainRuns
    /\ mpc' = IF exc THEN "raised" ELSE "returned"
    /\ UNCHANGED <<exc, timer, status, running, ha_discovery, stack,
                   netVars, busVars, histVars>>
    /\ UNCHANGED tokVars

\* A caller invokes stop() on a bridge that is not inside start().
ExplicitStop ==
    /\ mpc \in {"created", "returned", "raised"} /\ MainRuns
    /\ stack' = <<Frame("explicit")>>
    /\ UNCHANGED <<mainVars, netVars, busVars, histVars>>
    /\ UNCHANGED tokVars

\* SIGINT or SIGTERM: signal_handler calls self.stop() on the main thread,
\* on top of whatever the main thread was doing.
Signal ==
    /\ Events < MaxEvents
    /\ mpc \notin {"main", "config_error", "created", "returned", "raised",
                    "exit_0", "exit_1"}
    /\ sigs' = sigs + 1
    /\ stack' = Append(stack, Frame("signal"))
    /\ UNCHANGED <<mainVars, netVars, busVars, polls, pollFails,
                   cooldowns, cmds, drops, lastH, hraised, hfail, herrors,
                   offlineCalls, disconnectCalls>>
    /\ UNCHANGED tokVars

\* ------------------------------------------------------------ stop()
\* stop() with its two calls exchanged: disconnect first, then the publish.
stop_after_disconnect_first(pc) ==
    CASE pc = "set"  -> "disc"
      [] pc = "disc" -> "pub"
      [] pc = "pub"  -> "ret"

\* SkodaMQTTBridge.stop past its running check: the statement that follows
\* each statement ("ret": stop returns).
stop_after(pc) ==
    CASE pc = "set"  -> "pub"
      [] pc = "pub"  -> "disc"
      [] pc = "disc" -> "ret"

\* The stack once the top frame f has completed statement pc.
Advance(f, pc) ==
    IF stop_after(pc) = "ret" THEN Pop
    ELSE SetTop([f EXCEPT !.pc = stop_after(pc)])

InStop(pc) == stack # <<>> /\ Top.pc = pc

\* if not self.running: return
StopCheck ==
    /\ InStop("check")
    /\ stack' = IF running THEN SetTop([Top EXCEPT !.pc = "set"]) ELSE Pop
    /\ UNCHANGED <<mainVars, netVars, busVars, histVars>>
    /\ UNCHANGED tokVars

\* logger.info("Stopping ..."); self.running = False
StopSet ==
    /\ InStop("set")
    /\ running' = FALSE
    /\ stack' = Advance(Top, "set")
    /\ UNCHANGED <<mpc, exc, timer, status, ha_discovery,
                   netVars, busVars, histVars>>
    /\ UNCHANGED tokVars

\* self.mqtt_client.publish_availability(False)
StopPublishOffline ==
    /\ InStop("pub")
    /\ offlineCalls' = offlineCalls + 1
    /\ retAvail' = publish_availability(FALSE)
    /\ stack' = Advance([Top EXCEPT !.off = TRUE], "pub")
    /\ UNCHANGED <<mainVars, netVars, link, subscribed, retState, onlineSent,
                   discPubs, polls, pollFails, cooldowns, cmds, sigs,
                   drops, lastH, hraised, hfail, herrors, disconnectCalls>>
    /\ UNCHANGED tokVars

\* self.mqtt_client.disconnect() is called.
StopDisconnect ==
    /\ InStop("disc")
    /\ disconnectCalls' = disconnectCalls + 1
    /\ stack' = SetTop([Top EXCEPT !.pc = "loop_stop"])
    /\ UNCHANGED <<mainVars, netVars, busVars, polls, pollFails,
                   cooldowns, cmds, sigs, drops, lastH, hraised, hfail, herrors,
                   offlineCalls>>
    /\ UNCHANGED tokVars

\* MQTTClient.disconnect: self.client.loop_stop() joins the network thread,
\* which ends once the callback in progress has returned.
StopLoopStop ==
    /\ InStop("loop_stop")
    /\ npc \in NetQuiescent
    /\ npc' = IF npc = "dead" THEN "dead" ELSE "stopped"
    /\ stack' = SetTop([Top EXCEPT !.pc = "disc_fin"])
    /\ UNCHANGED <<mainVars, ncmd, hstatus, command_callbacks, connected,
                   busVars, histVars>>
    /\ UNCHANGED tokVars

\* MQTTClient.disconnect: self.client.disconnect(); self.connected = False
StopDisconnectFin ==
    /\ InStop("disc_fin")
    /\ link' = FALSE
    /\ subscribed' = FALSE
    /\ connected' = FALSE
    /\ stack' = Advance(Top, "disc")
    /\ UNCHANGED <<mainVars, npc, ncmd, hstatus, command_callbacks,
                   retAvail, retState, onlineSent, discPubs, histVars>>
    /\ UNCHANGED tokVars

\* ---------------------------------------------------- network thread
\* _on_connect with rc == 0: self.connected = True
OnConnect ==
    /\ npc = "connack" /\ link
    /\ connected' = TRUE
    /\ npc' = "oc_sub"
    /\ UNCHANGED <<mainVars, stack, ncmd, hstatus, command_callbacks,
                   busVars, histVars>>
    /\ UNCHANGED tokVars

\* _on_connect with rc != 0: self.connected = False; the broker closes.
OnConnectRefused ==
    /\ npc = "connack" /\ link
    /\ Events < MaxEvents
    /\ drops' = drops + 1
    /\ connected' = FALSE
    /\ link' = FALSE
    /\ npc' = "down"
    /\ UNCHANGED <<mainVars, stack, ncmd, hstatus, command_callbacks,
                   subscribed, retAvail, retState, onlineSent, discPubs,
                   polls, pollFails, cooldowns, cmds, sigs, lastH,
                   hraised, hfail, herrors, offlineCalls, disconnectCalls>>
    /\ UNCHANGED tokVars

\* An _on_connect that subscribes on the first connection only.
OnConnectSubscribeFirstOnly ==
    /\ npc = "oc_sub"
    /\ subscribed' = (link /\ drops = 0)
    /\ npc' = "oc_pub"
    /\ UNCHANGED <<mainVars, stack, ncmd, hstatus, command_callbacks,
                   connected, link, retAvail, retState, onlineSent, discPubs,
                   histVars, tokVars>>

\* _on_connect: self.client.subscribe(<prefix>/command/#)
OnConnectSubscribe ==
    /\ npc = "oc_sub"
    /\ subscribed' = link
    /\ npc' = "oc_pub"
    /\ UNCHANGED <<mainVars, stack, ncmd, hstatus, command_callbacks,
                   connected, link, retAvail, retState, onlineSent, discPubs,
                   histVars>>
    /\ UNCHANGED tokVars

\* _on_connect: self.publish_availability(True)
OnConnectPublish ==
    /\ npc = "oc_pub"
    /\ retAvail' = publish_availability(TRUE)
    /\ onlineSent' = (onlineSent \/ link)
    /\ npc' = "idle"
    /\ UNCHANGED <<mainVars, stack, ncmd, hstatus, command_callbacks,
                   connected, link, subscribed, retState, discPubs, histVars>>
    /\ UNCHANGED tokVars

\* The transport to the broker is lost.
Drop ==
    /\ link /\ npc \notin {"off", "stopped", "dead"}
    /\ Events < MaxEvents
    /\ drops' = drops + 1
    /\ link' = FALSE
    /\ subscribed' = FALSE
    /\ UNCHANGED <<mainVars, stack, netVars, retAvail, retState, onlineSent,
                   discPubs, polls, pollFails, cooldowns, cmds, sigs,
                   lastH, hraised, hfail, herrors, offlineCalls, disconnectCalls>>
    /\ UNCHANGED tokVars

\* _on_disconnect: self.connected = False
OnDisconnect ==
    /\ npc \in {"idle", "connack"} /\ ~link
    /\ connected' = FALSE
    /\ npc' = "down"
    /\ UNCHANGED <<mainVars, stack, ncmd, hstatus, command_callbacks,
                   busVars, histVars>>
    /\ UNCHANGED tokVars

\* The network loop reconnects by itself.
Reconnect ==
    /\ npc = "down"
    /\ link' = TRUE
    /\ onlineSent' = FALSE
    /\ npc' = "connack"
    /\ UNCHANGED <<mainVars, stack, ncmd, hstatus, command_callbacks,
                   connected, subscribed, retAvail, retState, discPubs,
                   histVars>>
    /\ UNCHANGED tokVars

\* An _on_message in which a missing handler is an error that ends the
\* network thread.
no_handler_fatal ==
    /\ hfail' = "nohandler"
    /\ npc' = "dead"
    /\ UNCHANGED <<ncmd, lastH>>

\* _on_message, no callback registered for the command: a warning is logged.
no_handler ==
    /\ hfail' = "nohandler"
    /\ UNCHANGED <<npc, ncmd, lastH>>

\* A client whose _on_message is entered for the next message while a
\* handler is still running.
DeliverReentrant(family, name) ==
    /\ npc \in {"idle"} \cup HandlerPcs /\ link /\ subscribed
    /\ family = command_topic
    /\ Events < MaxEvents
    /\ cmds' = cmds + 1
    /\ IF name \in DOMAIN command_callbacks
       THEN /\ npc' = "h_write"
            /\ ncmd' = name
            /\ lastH' = NoH
            /\ hfail' = "none"
       ELSE no_handler
    /\ UNCHANGED <<mainVars, stack, hstatus, command_callbacks, connected,
                   busVars, polls, pollFails, cooldowns, sigs, drops,
                   hraised, herrors, offlineCalls, disconnectCalls>>
    /\ UNCHANGED tokVars

\* The broker delivers a message published on <prefix>/<family>/<name> to
\* the client if it matches the client's subscription, and _on_message
\* runs: the command is the rest of the topic after <prefix>/command/; its
\* registered callback is called, or a warning is logged.
Deliver(family, name) ==
    /\ npc = "idle" /\ link /\ subscribed
    /\ family = command_topic
    /\ Events < MaxEvents
    /\ cmds' = cmds + 1
    /\ IF family = "command"
       THEN IF name \in DOMAIN command_callbacks
            THEN /\ npc' = "h_write"
                 /\ ncmd' = name
                 /\ lastH' = NoH
                 /\ hfail' = "none"
            ELSE no_handler
       ELSE UNCHANGED <<npc, ncmd, lastH, hfail>>
    /\ UNCHANGED <<mainVars, stack, hstatus, command_callbacks, connected,
                   busVars, polls, pollFails, cooldowns, sigs, drops,
                   hraised, herrors, offlineCalls, disconnectCalls>>
    /\ UNCHANGED tokVars

\* A peer publishes a command message.
OnMessage ==
    \E family \in TopicFamilies, name \in TopicNames: Deliver(family, name)

\* A handler without its try/except: the exception leaves the callback and
\* ends the network thread.
handler_except_propagates ==
    /\ herrors' = herrors
    /\ npc' = "dead"
    /\ ncmd' = ""
    /\ hstatus' = 0
    /\ lastH' = NoH

\* The handler's `except Exception as e: logger.error(...)`, after which the
\* handler returns to _on_message and the network loop.
handler_except ==
    /\ herrors' = herrors + 1
    /\ npc' = "idle"
    /\ ncmd' = ""
    /\ hstatus' = 0
    /\ lastH' = NoH

\* A handler that returns after the write operation, without the refresh.
handler_write_ok_no_refresh ==
    /\ npc' = "idle"
    /\ ncmd' = ""
    /\ lastH' = NoH
    /\ UNCHANGED <<herrors, hstatus>>

\* The write operation of the handler returned: the next statement is
\* status = self.skoda_api.get_vehicle_status().
handler_write_ok ==
    /\ npc' = "h_fetch"
    /\ lastH' = [lastH EXCEPT !.write = "ok"]
    /\ UNCHANGED <<herrors, ncmd, hstatus>>

\* A handler that logs the failed write and goes on to the refresh.
handler_write_raised_then_refresh ==
    /\ herrors' = herrors + 1
    /\ npc' = "h_fetch"
    /\ lastH' = [lastH EXCEPT !.write = "err"]
    /\ UNCHANGED <<ncmd, hstatus>>

\* The write operation of the handler raised: control is in the except clause.
handler_write_raised ==
    handler_except

\* self.skoda_api.start_charging() / stop_charging() / lock_vehicle() /
\* unlock_vehicle()
HandlerWrite ==
    /\ npc = "h_write"
    /\ \E ok \in BOOLEAN:
        IF ok THEN /\ handler_write_ok
                   /\ UNCHANGED <<hraised, hfail>>
              ELSE /\ hraised' = hraised + 1
                   /\ hfail' = "write"
                   /\ handler_write_raised
    /\ UNCHANGED <<mainVars, stack, command_callbacks, connected, busVars,
                   polls, pollFails, cooldowns, cmds, sigs, drops,
                   offlineCalls, disconnectCalls>>
    /\ CallEnsureTokenValid

\* status = self.skoda_api.get_vehicle_status()
HandlerFetch ==
    /\ npc = "h_fetch"
    /\ \E ok \in BOOLEAN:
        IF ok THEN /\ lastH' = [lastH EXCEPT !.fetch = "ok"]
                   /\ hstatus' = get_vehicle_status(status, retState)
                   /\ status' = RankIn(status, Held(status, retState))
                   /\ retState' = RankIn(retState, Held(status, retState))
                   /\ npc' = "h_publish"
                   /\ UNCHANGED <<hraised, hfail, herrors, ncmd>>
              ELSE /\ hraised' = hraised + 1
                   /\ hfail' = "fetch"
                   /\ handler_except
                   /\ UNCHANGED <<status, retState>>
    /\ UNCHANGED <<mpc, exc, timer, running, ha_discovery,
                   stack, command_callbacks, connected,
                   link, subscribed, retAvail, onlineSent, discPubs,
                   polls, pollFails, cooldowns, cmds, sigs, drops,
                   offlineCalls, disconnectCalls>>
    /\ CallEnsureTokenValid

\* self.mqtt_client.publish_state(status)
HandlerPublish ==
    /\ npc = "h_publish"
    /\ \E ok \in BOOLEAN:
        IF ok THEN /\ retState' = publish_state(hstatus)
                   /\ npc' = "idle" /\ ncmd' = "" /\ hstatus' = 0
                   /\ lastH' = NoH
                   /\ UNCHANGED <<hraised, hfail, herrors>>
              ELSE /\ hraised' = hraised + 1
                   /\ hfail' = "publish"
                   /\ handler_except
                   /\ retState' = retState
    /\ UNCHANGED <<mainVars, stack, command_callbacks, connected,
                   link, subscribed, retAvail, onlineSent, discPubs,
                   polls, pollFails, cooldowns, cmds, sigs, drops,
                   offlineCalls, disconnectCalls>>
    /\ UNCHANGED tokVars

\* --------------------------------------------------------------- spec
Next ==
    \/ LoadConfig \/ Exit
    \/ Start \/ Authenticate \/ RegisterHandlers \/ Connect \/ Wait
    \/ Discovery \/ SetRunning \/ LoopCheck \/ PollFetch \/ PollPublish
    \/ Tick \/ Wake \/ Finally \/ Return \/ ExplicitStop \/ Signal
    \/ StopCheck \/ StopSet \/ StopPublishOffline \/ StopDisconnect
    \/ StopLoopStop \/ StopDisconnectFin
    \/ OnConnect \/ OnConnectRefused \/ OnConnectSubscribe
    \/ OnConnectPublish \/ Drop \/ OnDisconnect \/ Reconnect
    \/ OnMessage \/ HandlerWrite \/ HandlerFetch \/ HandlerPublish

Spec == Init /\ [][Next]_vars

\* ------------------------------------------ token lifecycle, by itself
\* An API operation is about to call _ensure_token_valid() on a SkodaAPI
\* object holding any token state, at any clock reading.
TokenInit ==
    /\ Constructed("ensure")
    /\ access_token \in {"None", "tok"}
    /\ refresh_token \in {"None", "rt"}
    /\ token_expires_at \in {NoTime} \cup (0..MaxExpiry)
    /\ now \in 0..MaxNow
    /\ authCalls = 0 /\ refreshCalls = 0

\* self._ensure_token_valid() runs to its end: it returns, having taken
\* the fallback after a failed refresh exchange or not, or the
\* SkodaAuthError of an authenticate() call it made leaves it (auth_ok:
\* authenticate() returns).
EnsureTokenValid ==
    /\ mpc = "ensure"
    /\ \E ok \in BOOLEAN, auth_ok \in BOOLEAN:
        LET r == _ensure_token_valid(Tok, now, ok)
        IN  /\ ApplyEnsureTokenValid(ok)
            /\ mpc' = IF r.auth = 1 /\ ~auth_ok THEN "ensure_raised"
                      ELSE IF r.fallback THEN "ensured_fallback"
                      ELSE "ensured"
    /\ UNCHANGED <<exc, timer, status, running, ha_discovery, stack,
                   netVars, busVars, histVars>>

\* A minute passes before the next API operation.
ClockTick ==
    /\ mpc \in {"ensured", "ensured_fallback", "ensure_raised"}
    /\ now < MaxNow
    /\ now' = now + 1
    /\ mpc' = "ensure"
    /\ UNCHANGED <<exc, timer, status, running, ha_discovery, stack,
                   netVars, busVars, histVars, access_token, refresh_token,
                   token_expires_at, authCalls, refreshCalls>>

TokenNext == EnsureTokenValid \/ ClockTick

TokenSpec == TokenInit /\ [][TokenNext]_vars

\* ------------------------------------- state publication, field by field
\* The poll loop and the handlers above carry a snapshot as the rank of its
\* timestamp.  Here publish_state is applied to the snapshot itself: the
\* dictionary get_vehicle_status returns, `status` below, and the retained
\* messages of the broker, `retState` below, by topic under the prefix
\* ("": no retained message).
StateTopics ==
    {"battery/soc", "battery/range", "battery/charging",
     "battery/plugged_in", "doors/locked", "last_updated"}

NothingRetained == [t \in StateTopics |-> ""]

\* Valid snapshots, a few values of each field.
SocValues == {0, 7, 75, 100}
RangeValues == {0, 280}
Timestamps == {"2024-01-01T10:00:00", "2024-01-01T10:05:00"}
Snapshots ==
    [battery : [soc : SocValues, range_km : RangeValues,
                charging : BOOLEAN, plugged_in : BOOLEAN],
     doors : [locked : BOOLEAN],
     last_updated : Timestamps]

\* paho's publish sends a number as its decimal text.
Payload(v) == ToString(v)

\* publish_state with the plugged_in topic fed from the charging flag.
publish_state_charging_twice(state_data, retained) ==
    IF ~connected \/ ~link THEN retained
    ELSE [retained EXCEPT
            !["battery/soc"] = Payload(state_data.battery.soc),
            !["battery/range"] = Payload(state_data.battery.range_km),
            !["battery/charging"] =
                IF state_data.battery.charging THEN "ON" ELSE "OFF",
            !["battery/plugged_in"] =
                IF state_data.battery.charging THEN "ON" ELSE "OFF",
            !["doors/locked"] =
                IF state_data.doors.locked THEN "LOCKED" ELSE "UNLOCKED",
            !["last_updated"] = state_data.last_updated]

\* MQTTClient.publish_state on the snapshot's fields: nothing when not
\* connected (and paho drops a publish while the transport is down); else
\* one retained message per field.
publish_state_topics(state_data, retained) ==
    IF ~connected \/ ~link THEN retained
    ELSE
    LET b == IF "battery" \in DOMAIN state_data
             THEN [retained EXCEPT
                    !["battery/soc"] = Payload(state_data.battery.soc),
                    !["battery/range"] = Payload(state_data.battery.range_km),
                    !["battery/charging"] =
                        IF state_data.battery.charging THEN "ON" ELSE "OFF",
                    !["battery/plugged_in"] =
                        IF state_data.battery.plugged_in THEN "ON" ELSE "OFF"]
             ELSE retained
        d == IF "doors" \in DOMAIN state_data
             THEN [b EXCEPT !["doors/locked"] =
                        IF state_data.doors.locked THEN "LOCKED"
                                                   ELSE "UNLOCKED"]
             ELSE b
    IN  IF "last_updated" \in DOMAIN state_data
        THEN [d EXCEPT !["last_updated"] = state_data.last_updated]
        ELSE d

\* What a subscriber reads back from the retained messages: the number a
\* decimal text stands for (NoTime if it stands for none of the values),
\* the flag an ON/OFF or LOCKED/UNLOCKED text stands for.
ParseNumber(text, values) ==
    IF \E n \in values: Payload(n) = text
    THEN CHOOSE n \in values: Payload(n) = text
    ELSE NoTime

read_state(retained) ==
    [battery |->
        [soc |-> ParseNumber(retained["battery/soc"], SocValues),
         range_km |-> ParseNumber(retained["battery/range"], RangeValues),
         charging |-> retained["battery/charging"] = "ON",
         plugged_in |-> retained["battery/plugged_in"] = "ON"],
     doors |-> [locked |-> retained["doors/locked"] = "LOCKED"],
     last_updated |-> retained["last_updated"]]

\* The snapshot the retained messages hold before the publish, if any.
EarlierSnapshot ==
    [battery |-> [soc |-> 7, range_km |-> 0, charging |-> TRUE,
                  plugged_in |-> FALSE],
     doors |-> [locked |-> FALSE],
     last_updated |-> "2024-01-01T09:55:00"]

EarlierRetained ==
    [t \in StateTopics |->
        CASE t = "battery/soc" -> Payload(EarlierSnapshot.battery.soc)
          [] t = "battery/range" -> Payload(EarlierSnapshot.battery.range_km)
          [] t = "battery/charging" -> "ON"
          [] t = "battery/plugged_in" -> "OFF"
          [] t = "doors/locked" -> "UNLOCKED"
          [] t = "last_updated" -> EarlierSnapshot.last_updated]

\* The poll loop has fetched a snapshot and is about to publish it; the
\* client is connected or not, the transport up or not.
PublishInit ==
    /\ mpc = "publish" /\ exc = FALSE /\ timer = "off"
    /\ status \in Snapshots
    /\ running = TRUE
    /\ ha_discovery \in BOOLEAN
    /\ stack = <<>>
    /\ npc \in {"idle", "connack"} /\ ncmd = "" /\ hstatus = 0
    /\ command_callbacks = [n \in CommandNames |-> HandlerOf(n)]
    /\ connected \in BOOLEAN
    /\ link \in BOOLEAN /\ subscribed = (link /\ npc = "idle")
    /\ retAvail = "online"
    /\ retState \in {NothingRetained, EarlierRetained}
    /\ onlineSent = subscribed /\ discPubs = 0
    /\ polls = 1 /\ pollFails = 0 /\ cooldowns = 0
    /\ cmds = 0 /\ sigs = 0 /\ drops = 0
    /\ lastH = NoH /\ hraised = 0 /\ hfail = "none" /\ herrors = 0
    /\ offlineCalls = 0 /\ disconnectCalls = 0
    /\ NoToken

\* self.mqtt_client.publish_state(status); then time.sleep(poll_interval)
PublishSnapshot ==
    /\ mpc = "publish" /\ MainRuns
    /\ retState' = publish_state_topics(status, retState)
    /\ mpc' = "sleep_poll"
    /\ timer' = "pending"
    /\ UNCHANGED <<exc, status, running, ha_discovery, stack, netVars,
                   link, subscribed, retAvail, onlineSent, discPubs,
                   histVars, tokVars>>

PublishSpec == PublishInit /\ [][PublishSnapshot]_vars

\* ------------------------------------------- the callback registry alone
\* The closures that can be registered.
Callbacks == {HandlerOf(n) : n \in CommandNames}

\* _on_message's lookup: the callback it calls for a command, "None" when
\* the command is not in command_callbacks.
callback_for(cbs, command) ==
    IF command \in DOMAIN cbs THEN cbs[command] ELSE "None"

\* The bridge has registered its four handlers and the client is connected
\* and subscribed, the network thread between two callbacks.
RegisterInit ==
    /\ mpc = "loop_check" /\ exc = FALSE /\ timer = "off" /\ status = 0
    /\ running = TRUE
    /\ ha_discovery \in BOOLEAN
    /\ stack = <<>>
    /\ npc = "idle" /\ ncmd = "" /\ hstatus = 0
    /\ command_callbacks = [n \in CommandNames |-> HandlerOf(n)]
    /\ connected = TRUE
    /\ link = TRUE /\ subscribed = TRUE
    /\ retAvail = "online" /\ retState = 0
    /\ onlineSent = TRUE /\ discPubs = 0
    /\ polls = 0 /\ pollFails = 0 /\ cooldowns = 0
    /\ cmds = 0 /\ sigs = 0 /\ drops = 0
    /\ lastH = NoH /\ hraised = 0 /\ hfail = "none" /\ herrors = 0
    /\ offlineCalls = 0 /\ disconnectCalls = 0
    /\ NoToken

\* register_command_callback(command, callback) is called on the client,
\* before the message whose dispatch is observed arrives.
Register(command, callback) ==
    /\ npc = "idle"
    /\ command_callbacks' =
            register_command_callback(command_callbacks, command, callback)
    /\ UNCHANGED <<mainVars, stack, npc, ncmd, hstatus, connected, busVars,
                   histVars, tokVars>>

RegisterCallback ==
    \E command \in TopicNames, callback \in Callbacks:
        Register(command, callback)

\* _on_message for a message on <prefix>/command/<name>: the callback
\* registered for the command is called (ncmd: the callback that runs), or
\* the warning is logged.
DispatchCommand(name) ==
    /\ npc = "idle" /\ link /\ subscribed
    /\ Events < MaxEvents
    /\ cmds' = cmds + 1
    /\ IF name \in DOMAIN command_callbacks
       THEN /\ npc' = "h_write"
            /\ ncmd' = callback_for(command_callbacks, name)
            /\ lastH' = NoH
            /\ hfail' = "none"
       ELSE no_handler
    /\ UNCHANGED <<mainVars, stack, hstatus, command_callbacks, connected,
                   busVars, polls, pollFails, cooldowns, sigs, drops,
                   hraised, herrors, offlineCalls, disconnectCalls, tokVars>>

DispatchMessage == \E name \in TopicNames: DispatchCommand(name)

RegisterNext == RegisterCallback \/ DispatchMessage

RegisterSpec == RegisterInit /\ [][RegisterNext]_vars

\* ------------------------------- two threads in _ensure_token_valid()
\* The poll loop, in the main thread, is about to call get_vehicle_status()
\* and a command handler, in the network thread, its write operation, on
\* the one SkodaAPI object, which holds any token state.
RaceInit ==
    /\ mpc = "fetch" /\ exc = FALSE /\ timer = "off" /\ status = 0
    /\ running = TRUE
    /\ ha_discovery \in BOOLEAN
    /\ stack = <<>>
    /\ npc = "h_write" /\ ncmd \in CommandNames /\ hstatus = 0
    /\ command_callbacks = [n \in CommandNames |-> HandlerOf(n)]
    /\ connected = TRUE
    /\ link = TRUE /\ subscribed = TRUE
    /\ retAvail = "online" /\ retState = 0
    /\ onlineSent = TRUE /\ discPubs = 0
    /\ polls = 0 /\ pollFails = 0 /\ cooldowns = 0
    /\ cmds = 1 /\ sigs = 0 /\ drops = 0
    /\ lastH = NoH /\ hraised = 0 /\ hfail = "none" /\ herrors = 0
    /\ offlineCalls = 0 /\ disconnectCalls = 0
    /\ access_token \in {"None", "tok"}
    /\ refresh_token \in {"None", "rt"}
    /\ token_expires_at \in {NoTime} \cup (0..MaxExpiry)
    /\ now \in 0..MaxNow
    /\ authCalls = 0 /\ refreshCalls = 0

\* A thread leaves _ensure_token_valid(): the authenticate() and refresh
\* calls the function selected have been made, and are counted.
EnsureReturn(ok) ==
    LET r == _ensure_token_valid(Tok, now, ok)
    IN  /\ access_token' = r.tok.access_token
        /\ refresh_token' = r.tok.refresh_token
        /\ token_expires_at' = r.tok.token_expires_at
        /\ authCalls' = authCalls + r.auth
        /\ refreshCalls' = refreshCalls + r.refresh
        /\ now' = now

\* get_vehicle_status() in the poll loop: control enters
\* self._ensure_token_valid().  Nothing is acquired on the way in.
MainEnsureEnter ==
    /\ mpc = "fetch"
    /\ mpc' = "fetch_ensure"
    /\ UNCHANGED <<exc, timer, status, running, ha_discovery, stack,
                   netVars, busVars, histVars, tokVars>>

\* The poll loop's _ensure_token_valid() returns: the request follows.
MainEnsureReturn ==
    /\ mpc = "fetch_ensure"
    /\ mpc' = "fetch_request"
    /\ \E ok \in BOOLEAN: EnsureReturn(ok)
    /\ UNCHANGED <<exc, timer, status, running, ha_discovery, stack,
                   netVars, busVars, histVars>>

\* The write operation of the handler: control enters
\* self._ensure_token_valid().
NetEnsureEnter ==
    /\ npc = "h_write"
    /\ npc' = "h_write_ensure"
    /\ UNCHANGED <<mainVars, stack, ncmd, hstatus, command_callbacks,
                   connected, busVars, histVars, tokVars>>

\* The handler's _ensure_token_valid() returns: the request follows.
NetEnsureReturn ==
    /\ npc = "h_write_ensure"
    /\ npc' = "h_write_request"
    /\ \E ok \in BOOLEAN: EnsureReturn(ok)
    /\ UNCHANGED <<mainVars, stack, ncmd, hstatus, command_callbacks,
                   connected, busVars, histVars>>

RaceNext ==
    \/ MainEnsureEnter \/ MainEnsureReturn
    \/ NetEnsureEnter \/ NetEnsureReturn

RaceSpec == RaceInit /\ [][RaceNext]_vars

\* ------------------------------------------------------------- claims
\* Steps of interest.
\* A state publish returns: by the poll loop, or by a command handler.
PublishStep ==
    \/ mpc = "publish" /\ mpc' # "publish"
    \/ npc = "h_publish" /\ npc' # "h_publish"
\* An exception is raised inside a command handler.
HandlerRaiseStep == hraised' > hraised
\* The network thread takes a step of a command handler (the thread's end
\* with the process is not one).
HandlerStep == npc \in HandlerPcs /\ npc' \notin {npc, "stopped"}

\* C1: on every shutdown path the 'offline' availability message is
\* published before MQTTClient.disconnect() is issued: a stop() invocation
\* that has called disconnect() has published 'offline' before, so
\* disconnect calls never outnumber the offline publishes.
C1_OfflineBeforeDisconnect ==
    /\ disconnectCalls <= offlineCalls
    /\ \A i \in 1..Len(stack):
          stack[i].pc \in {"loop_stop", "disc_fin"} => stack[i].off

\* C1 witness: a shutdown has run to its end; start() has returned.
C1_Witness ==
    /\ mpc = "returned" /\ stack = <<>>
    /\ offlineCalls = 1 /\ disconnectCalls = 1 /\ ~connected

\* C2 (as claimed): stop() on a bridge that is not running publishes
\* nothing, disconnects nothing and changes no bridge state; and across all
\* stop() calls the offline publish and the disconnect each happen at most
\* once.
C2_StopIdempotent ==
    /\ [][InStop("check") /\ ~running /\ Len(stack') < Len(stack)
            => UNCHANGED <<mainVars, netVars, busVars, histVars>>]_vars
    /\ [](offlineCalls <= 1 /\ disconnectCalls <= 1)

\* C3: an exception raised inside a command handler is caught and logged
\* there: the network thread is back in its loop (never ended by the
\* exception), and the bridge's running flag, the poll loop's position and
\* timer, the connection and the subscription are as they were.
C3_HandlerExceptionContained ==
    /\ [][HandlerRaiseStep =>
            /\ npc' = "idle"
            /\ herrors' = herrors + 1
            /\ UNCHANGED <<mpc, exc, timer, running, stack, connected, link,
                           subscribed, command_callbacks, retAvail>>]_vars
    /\ [](npc # "dead")

\* C3 witness: after a handler raised, a later command is being handled
\* while the poll loop is about to fetch the status.
C3_Witness ==
    /\ hraised >= 1 /\ npc = "h_write" /\ cmds >= 2
    /\ running /\ mpc = "fetch" /\ connected

\* C4: an error raised in a poll iteration (by the fetch or by the publish)
\* is caught in the loop: the loop goes straight to one cooldown sleep, not
\* the poll sleep, and then retries, so there are as many cooldown sleeps as
\* failed iterations; a failure publishes no 'offline' and does not change
\* running; the loop is left only when running is false.
C4_PollErrorCooldown ==
    /\ [](cooldowns = pollFails)
    /\ [][pollFails' > pollFails =>
            /\ mpc' = "cooldown" /\ timer' = "pending"
            /\ UNCHANGED <<running, offlineCalls, retAvail, exc>>]_vars
    /\ [][mpc = "cooldown" /\ mpc' # "cooldown" => mpc' = "loop_check"]_vars
    /\ [][(mpc \in LoopPcs) /\ mpc' \notin LoopPcs => (~running)]_vars

\* C4 witness: every poll iteration so far failed, each followed by a
\* cooldown; the bridge is still running and the retained availability is
\* still 'online'.
C4_Witness ==
    /\ polls = MaxPolls /\ pollFails = MaxPolls /\ cooldowns = MaxPolls
    /\ mpc = "loop_check" /\ running /\ retAvail = "online"
    /\ offlineCalls = 0

\* C5: in a command handler whose write operation succeeds, the status
\* fetch follows the write and the state publish follows the fetch, before
\* the handler returns; the handler's steps leave the poll loop's position
\* and its pending sleep untouched, and time keeps passing for that sleep
\* while the handler runs.  The client is connected for as long as a handler
\* runs, so publish_state does not skip the publish.
C5_CommandRefresh ==
    /\ [](npc = "h_fetch" => lastH.write = "ok")
    /\ [](npc = "h_publish" =>
            lastH.write = "ok" /\ lastH.fetch = "ok" /\ hstatus # 0)
    /\ [][npc = "h_write" /\ HandlerStep /\ ~HandlerRaiseStep
            => npc' = "h_fetch"]_vars
    /\ [][npc = "h_fetch" /\ HandlerStep /\ ~HandlerRaiseStep
            => npc' = "h_publish"]_vars
    /\ [][HandlerStep /\ ~HandlerRaiseStep /\ npc' \notin HandlerPcs
            => npc = "h_publish" /\ npc' = "idle"]_vars
    /\ [][HandlerStep => UNCHANGED <<mpc, timer, status # 0>>]_vars
    /\ [](npc \in HandlerPcs /\ mpc \in SleepPcs /\ timer = "pending"
            => ENABLED Tick)
    /\ [](npc \in HandlerPcs => connected)

\* C5 witness: the handler has written and fetched and is about to publish
\* while the poll loop sleeps its poll interval.
C5_Witness ==
    /\ npc = "h_publish" /\ lastH.write = "ok" /\ lastH.fetch = "ok"
    /\ mpc = "sleep_poll" /\ timer = "elapsed" /\ running

\* C6 (as claimed): when the write operation of a handler raises, the
\* handler still goes on to the status fetch.
C6_RefreshAfterFailedWrite ==
    [][npc = "h_write" /\ HandlerRaiseStep => npc' = "h_fetch"]_vars

\* C6 (amended): when the write operation of a handler raises, the handler
\* logs the failure and returns at once: it fetches no status and publishes
\* no state.  A handler reaches its fetch only after a successful write.
C6_NoRefreshAfterFailedWrite ==
    /\ [][npc = "h_write" /\ HandlerRaiseStep =>
            /\ npc' = "idle"
            /\ herrors' = herrors + 1
            /\ UNCHANGED <<retState, status, hstatus>>]_vars
    /\ [](npc \in {"h_fetch", "h_publish"} => lastH.write = "ok")

\* C6 witness: a handler has returned after its write operation raised.
C6_Witness ==
    npc = "idle" /\ hfail = "write" /\ herrors >= 1

\* C7 (as claimed): no state message reaches the bus before 'online' has
\* been published for the current connection.
C7_OnlineBeforeState ==
    [][PublishStep /\ retState' # retState => (onlineSent = TRUE)]_vars

\* C8 (as claimed): a snapshot is never published after a newer one has
\* been published: each publish leaves the retained snapshot at least as
\* new as it was.
C8_NoStalePublish ==
    [][PublishStep => (retState' >= retState)]_vars

\* C9 (as claimed): once a termination signal has been delivered, the poll
\* loop performs no further status fetch, and when the signal handler has
\* returned the bridge is no longer running.
C9_SignalStopsBridge ==
    /\ [][sigs > 0 => (polls' = polls)]_vars
    /\ [](sigs > 0 /\ stack = <<>> => ~running)

\* C10 (as claimed): a command handler in progress is never cancelled, and
\* the shutdown publishes 'offline' only when no command handler is in
\* progress.
C10_OfflineAfterHandler ==
    /\ [][HandlerStep => npc' \in HandlerPcs \cup {"idle"}]_vars
    /\ [][offlineCalls' > offlineCalls => npc \notin HandlerPcs]_vars

\* An _ensure_token_valid() call returns.
EnsureStep == mpc = "ensure" /\ mpc' # "ensure"
\* A token is held: access token and expiry time are set.
TokenHeld == access_token # "None" /\ token_expires_at # NoTime

\* The clock reading is inside the refresh margin of the token's expiry
\* time, or past it.
ExpiringOrExpired == token_expires_at - now <= RefreshMargin

\* C19: _ensure_token_valid() called while an access token is held whose
\* expiry time is more than 5 minutes after the clock reading makes no
\* authenticate() call and no refresh exchange and leaves the token state
\* as it is.
C19_EnsureValidNoOp ==
    [][EnsureStep /\ TokenHeld /\ token_expires_at - now > RefreshMargin
        => /\ authCalls' = 0 /\ refreshCalls' = 0
           /\ mpc' = "ensured"
           /\ UNCHANGED <<access_token, refresh_token,
                          token_expires_at>>]_vars

\* C19 witness: the call has returned for a token that expires more than
\* 5 minutes later, having called nothing.
C19_Witness ==
    /\ mpc = "ensured" /\ TokenHeld /\ refresh_token = "rt"
    /\ token_expires_at - now > RefreshMargin
    /\ authCalls = 0 /\ refreshCalls = 0

\* C20: _ensure_token_valid() called while a token is held whose expiry
\* time is at most 5 minutes after the clock reading, or past: with a
\* refresh token it makes exactly one refresh exchange, and no
\* authenticate() call unless the exchange failed; without a refresh token
\* it makes exactly one authenticate() call and no refresh exchange.
C20_EnsureValidRefreshOnce ==
    [][EnsureStep /\ TokenHeld /\ token_expires_at - now <= RefreshMargin
        => /\ refresh_token # "None" =>
                /\ refreshCalls' = 1
                /\ authCalls' = (IF mpc' = "ensured" THEN 0 ELSE 1)
           /\ refresh_token = "None" =>
                /\ authCalls' = 1 /\ refreshCalls' = 0
                /\ mpc' \in {"ensured", "ensure_raised"}]_vars

\* C20 witness: the call has returned for an expired token with a refresh
\* token, after one successful refresh exchange.
C20_Witness ==
    /\ mpc = "ensured" /\ TokenHeld /\ refresh_token = "rt"
    /\ token_expires_at < now
    /\ authCalls = 0 /\ refreshCalls = 1

\* C18: for every valid snapshot, publishing it while the client is
\* connected to the broker and then reading the retained messages back
\* yields that snapshot, every field as it was, whatever was retained
\* before.
C18_PublishRoundTrip ==
    [][mpc = "publish" /\ mpc' = "sleep_poll" /\ connected /\ link
        => read_state(retState') = status]_vars

\* C18 witness: the snapshot of the source's example has been published
\* while connected, and reads back from the retained messages.
C18_Witness ==
    /\ mpc = "sleep_poll" /\ connected /\ link
    /\ status \in Snapshots
    /\ status.battery.soc = 75 /\ status.battery.range_km = 280
    /\ ~status.battery.charging /\ status.battery.plugged_in
    /\ status.doors.locked
    /\ read_state(retState) = status

\* The steps of start() before the poll loop, in order.
StartupPcs ==
    {"main", "config_error", "created", "auth", "register", "connect",
     "wait", "discovery", "set_running"}
StartupNext ==
    [created |-> "auth", auth |-> "register", register |-> "connect",
     connect |-> "wait", wait |-> "discovery", discovery |-> "set_running",
     set_running |-> "loop_check"]

\* C11 (as claimed): every successfully fetched snapshot is the retained
\* state when the publish that follows the fetch has returned, in the poll
\* loop before it sleeps and in a command handler before it returns.
C11_EveryFetchPublished ==
    /\ [][mpc = "publish" /\ mpc' = "sleep_poll"
            => retState' = status]_vars
    /\ [][npc = "h_publish" /\ npc' = "idle" /\ ~HandlerRaiseStep
            => retState' = hstatus]_vars

\* C12 (as claimed): whenever the bridge is connected and waiting for
\* messages, a message published on <prefix>/cmd/<name>, for each of the
\* four registered names, is dispatched to the handler of that name.
C12_CmdTopicDispatch ==
    npc = "idle" /\ link /\ subscribed /\ Events < MaxEvents
        => \A name \in CommandNames:
              ENABLED (Deliver("cmd", name) /\ npc' = "h_write"
                       /\ ncmd' = name)

\* C13: a message whose command has no registered handler starts no
\* handler, raises nothing and ends nothing: apart from the count of
\* messages and the note of the warning, the whole state is as it was (no
\* API operation, no publish, the retained state and the token state
\* unchanged); and a handler is started only for a registered command.
C13_UnknownCommandIgnored ==
    /\ [][cmds' > cmds /\ hfail' = "nohandler" =>
            /\ npc' = "idle"
            /\ UNCHANGED <<mainVars, stack, netVars, busVars, tokVars,
                           polls, pollFails, cooldowns, sigs, drops, lastH,
                           hraised, herrors, offlineCalls,
                           disconnectCalls>>]_vars
    /\ [][cmds' > cmds /\ npc' = "h_write" =>
            ncmd' \in DOMAIN command_callbacks]_vars
    /\ [](npc \in HandlerPcs => ncmd \in CommandNames)
    /\ [](npc = "idle" /\ link /\ subscribed /\ Events < MaxEvents
            => ENABLED (Deliver("command", "horn") /\ hfail' = "nohandler"))

\* C13 witness: a message with an unregistered command has been dropped
\* while the bridge is running with a published state.
C13_Witness ==
    /\ hfail = "nohandler" /\ npc = "idle" /\ cmds >= 1
    /\ running /\ retState # 0 /\ connected /\ link

\* C14: _on_connect, on every successful connection, subscribes to the
\* command filter and then publishes 'online'; so whenever the network
\* thread is waiting for messages on a live connection and no shutdown has
\* published 'offline', the client is connected, the subscription is in
\* place, the retained availability is 'online' and a command message can
\* be delivered.
C14_ReconnectRestores ==
    /\ [][npc = "connack" /\ npc' = "oc_sub" => connected']_vars
    /\ [][npc = "oc_sub" /\ npc' \notin {npc, "stopped"} =>
            npc' = "oc_pub" /\ subscribed' = link]_vars
    /\ [][npc = "oc_pub" /\ npc' \notin {npc, "stopped"} =>
            npc' = "idle" /\ (link => retAvail' = "online")]_vars
    /\ [](npc \in {"idle"} \cup HandlerPcs /\ link /\ offlineCalls = 0
            => connected /\ subscribed /\ retAvail = "online")
    /\ [](npc = "idle" /\ link /\ offlineCalls = 0 /\ Events < MaxEvents
            => ENABLED OnMessage)

\* C14 witness: after two losses of the connection the running bridge is
\* connected again, subscribed, and 'online' is retained.
C14_Witness ==
    /\ drops >= 2 /\ npc = "idle" /\ link /\ connected /\ subscribed
    /\ retAvail = "online" /\ running /\ mpc \in LoopPcs

C16_DiscoveryOnce ==
    /\ ha_discovery /\ mpc \in LoopPcs => discPubs = 1
    /\ discPubs <= 1
    /\ ~ha_discovery => discPubs = 0

C29_StartExitDisconnects ==
    [](mpc \in {"returned", "raised"} /\ npc # "off"
        => offlineCalls >= 1 /\ disconnectCalls >= 1)

\* C28: once stop() has published 'offline', no vehicle state message is
\* published any more.
C28_OfflineIsLast ==
    [][PublishStep /\ retState' # retState => offlineCalls = 0]_vars

\* An API operation has returned without error: its _ensure_token_valid()
\* call returned and the request was made.
ApiCallReturned ==
    \/ mpc = "fetch" /\ mpc' = "publish"
    \/ npc = "h_fetch" /\ npc' = "h_publish"
    \/ npc = "h_write" /\ npc' = "h_fetch" /\ hraised' = hraised

\* C21: every vehicle API call that is made is made with a token held whose
\* expiry time is at least 5 minutes after the clock reading.
C21_CallsUseValidToken ==
    [][ApiCallReturned =>
        /\ access_token' # "None" /\ token_expires_at' # NoTime
        /\ token_expires_at' - now' >= RefreshMargin]_vars

\* C26: at most one command handler executes at a time.  A command message
\* is taken by _on_message only while no callback is in progress on the
\* network thread; a handler starts only then, for the message just taken;
\* and until it has returned no other message is taken and the command
\* being handled stays the same, whatever the poll loop does meanwhile.
C26_OneHandlerAtATime ==
    /\ [][cmds' > cmds => npc = "idle" /\ ncmd = ""]_vars
    /\ [][npc' = "h_write" /\ npc # "h_write" =>
            /\ npc = "idle" /\ cmds' = cmds + 1
            /\ ncmd' \in DOMAIN command_callbacks]_vars
    /\ [][(npc \in HandlerPcs) =>
            /\ cmds' = cmds
            /\ ncmd' = ncmd \/ (ncmd' = "" /\ npc' \notin HandlerPcs)]_vars
    /\ [](npc \in HandlerPcs => ncmd \in DOMAIN command_callbacks)
    /\ [](ncmd # "" => npc \in HandlerPcs \cup {"stopped"})

\* C26 witness: the handler of lock, run for the second command message
\* taken, is fetching the status while the poll loop is inside an iteration.
C26_Witness ==
    /\ npc = "h_fetch" /\ ncmd = "lock" /\ cmds = 2
    /\ herrors + hraised = 0 /\ hfail = "none"
    /\ mpc = "publish" /\ polls >= 1

\* C27: register_command_callback(command, callback) is last write wins.
\* Whatever is registered already, the call is possible for every command
\* and callback; afterwards the command is registered with that callback,
\* whether or not it was registered before; every other command keeps the
\* callback it had, and no command is removed; and a message for the
\* command then runs that callback and no other.
C27_RegisterLastWriteWins ==
    /\ [](npc = "idle" =>
            \A command \in TopicNames, callback \in Callbacks:
                LET cbs == register_command_callback(command_callbacks,
                                                     command, callback)
                IN  /\ ENABLED Register(command, callback)
                    /\ DOMAIN cbs = (DOMAIN command_callbacks) \cup {command}
                    /\ cbs[command] = callback
                    /\ \A n \in (DOMAIN command_callbacks) \ {command}:
                            cbs[n] = command_callbacks[n]
                    /\ callback_for(cbs, command) = callback)
    /\ [][command_callbacks' # command_callbacks =>
            \E command \in TopicNames:
                /\ DOMAIN command_callbacks' =
                        (DOMAIN command_callbacks) \cup {command}
                /\ \A n \in (DOMAIN command_callbacks) \ {command}:
                        command_callbacks'[n] = command_callbacks[n]]_vars
    /\ [](npc = "idle" /\ Events < MaxEvents =>
            \A name \in DOMAIN command_callbacks:
                /\ ENABLED (DispatchCommand(name)
                                /\ ncmd' = command_callbacks[name])
                /\ ~ENABLED (DispatchCommand(name)
                                /\ ncmd' # command_callbacks[name]))

\* C27 witness: lock, registered with handle_lock at first, was registered
\* again with handle_unlock, the other commands as they were, and the first
\* message, one for lock or for unlock, ran handle_unlock.
C27_Witness ==
    /\ command_callbacks =
            [n \in CommandNames |->
                IF n = "lock" THEN "handle_unlock" ELSE HandlerOf(n)]
    /\ npc = "h_write" /\ ncmd = "handle_unlock" /\ cmds = 1

\* C23: _ensure_token_valid() selects what it does by the age of the token:
\* with no token, or with a token that has expired already, it calls
\* authenticate() and makes no refresh exchange; with a token that has not
\* expired but expires within 5 minutes it refreshes; otherwise it does
\* nothing.
C23_SelectByAge ==
    [][EnsureStep =>
        /\ ~TokenHeld \/ token_expires_at <= now =>
                authCalls' = 1 /\ refreshCalls' = 0
        /\ TokenHeld /\ now < token_expires_at /\ ExpiringOrExpired
                /\ refresh_token # "None" => refreshCalls' = 1
        /\ TokenHeld /\ ~ExpiringOrExpired =>
                authCalls' = 0 /\ refreshCalls' = 0]_vars

\* C23, amended: with no access token or no expiry time
\* _ensure_token_valid() calls authenticate() and makes no refresh
\* exchange; with a token that expires within 5 minutes or has expired
\* already it takes the refresh path (_refresh_token: the exchange if a
\* refresh token is held, and authenticate() only without one or after a
\* failed exchange); otherwise it does nothing.
C23_SelectByAgeAmended ==
    [][EnsureStep =>
        /\ ~TokenHeld => authCalls' = 1 /\ refreshCalls' = 0
        /\ TokenHeld /\ ExpiringOrExpired =>
            /\ refresh_token # "None" =>
                /\ refreshCalls' = 1
                /\ authCalls' = 1 <=> mpc' # "ensured"
                /\ authCalls' \in {0, 1}
            /\ refresh_token = "None" =>
                authCalls' = 1 /\ refreshCalls' = 0
        /\ TokenHeld /\ ~ExpiringOrExpired =>
                authCalls' = 0 /\ refreshCalls' = 0]_vars

\* C23 witness: the call has returned for a token with a refresh token that
\* expired more than a minute before, having made the refresh exchange and
\* no authenticate() call.
C23_Witness ==
    /\ mpc = "ensured" /\ TokenHeld /\ refresh_token = "rt"
    /\ token_expires_at + 1 < now
    /\ refreshCalls = 1 /\ authCalls = 0

\* C24: no operation on the token state makes an access token present
\* without an expiry time: if the expiry time is present whenever the
\* access token is, the same is true after an _ensure_token_valid() call,
\* whichever of authenticate() and _refresh_token() it called and whether
\* it returned or raised.
C24_TokenHasExpiry ==
    [][(access_token # "None" => token_expires_at # NoTime)
        => (access_token' # "None" => token_expires_at' # NoTime)]_vars

\* C24 witness: an _ensure_token_valid() call made with no token held has
\* ended with the SkodaAuthError of its authenticate() call.
C24_Witness ==
    /\ mpc = "ensure_raised" /\ authCalls = 1 /\ refreshCalls = 0
    /\ access_token = "None" /\ token_expires_at = NoTime

\* C25: _refresh_token() does not fail because it cannot refresh.  Called
\* (by _ensure_token_valid(), for a token at or inside the margin) without
\* a refresh token it makes exactly one authenticate() call and no
\* exchange; when the exchange fails it makes exactly one authenticate()
\* call after it; an exception leaves it only out of that authenticate()
\* call, and in both cases it can return normally.
C25_RefreshFallsBack ==
    /\ [][EnsureStep /\ TokenHeld /\ ExpiringOrExpired =>
            /\ refresh_token = "None" =>
                    authCalls' = 1 /\ refreshCalls' = 0
            /\ mpc' = "ensured_fallback" =>
                    authCalls' = 1 /\ refreshCalls' = 1
            /\ mpc' = "ensure_raised" =>
                    /\ authCalls' = 1
                    /\ refresh_token = "None" \/ refreshCalls' = 1
            /\ authCalls' <= 1 /\ refreshCalls' <= 1]_vars
    /\ [](mpc = "ensure" /\ TokenHeld /\ ExpiringOrExpired =>
            /\ ENABLED (EnsureTokenValid /\ mpc' # "ensure_raised"
                            /\ authCalls' = 1)
            /\ ~ENABLED (EnsureTokenValid /\ mpc' = "ensure_raised"
                            /\ authCalls' = 0))

\* C25 witness: the call has returned for a token inside the margin after
\* the refresh exchange failed and the authenticate() call that followed
\* returned.
C25_Witness ==
    /\ mpc = "ensured_fallback" /\ TokenHeld /\ refresh_token = "rt"
    /\ ExpiringOrExpired
    /\ refreshCalls = 1 /\ authCalls = 1

\* C22: the poll loop and a command handler are never inside
\* _ensure_token_valid() (and the authenticate() or _refresh_token() call
\* it makes) at the same time.
C22_TokenSectionExclusive ==
    [](~(mpc = "fetch_ensure" /\ npc = "h_write_ensure"))

====
